---- MODULE Spec2Model ----
(***************************************************************************)
(* Model of src/modules/iotjs_module_process.c: the native half of the     *)
(* module loader (Compile, CompileSnapshot, DebuggerSourceCompile,         *)
(* CompileModule, DLOpen).                                                 *)
(*                                                                         *)
(* The runtime is single threaded, so one handler runs at a time.          *)
(* CompileModule is modelled in the three steps of its body (lookup,       *)
(* produce, invoke); the other handlers are straight-line code and are one *)
(* action each.  `trace` records, in order, the engine and platform calls  *)
(* the current handler has made.                                           *)
(*                                                                         *)
(* Calls are well typed: DJS_CHECK_ARGS is a debug-build argument check    *)
(* defined outside this file and is not modelled.  A compiled unit that    *)
(* calls require() re-enters CompileModule; nested resolutions are not     *)
(* modelled.                                                               *)
(***************************************************************************)
EXTENDS Integers, Sequences, FiniteSets, TLC

VARIABLES
  debugger,            \* iotjs_environment_config(env)->debugger != NULL
  snapshotBuild,       \* the build defines ENABLE_SNAPSHOT
  handler,             \* the JS_FUNCTION running or last run
  phase,               \* position inside CompileModule
  trace,               \* engine / platform calls of the current handler
  result,              \* value the handler returned
  jmodule,             \* CompileModule: the module record (id, exports)
  i,                   \* CompileModule: index found by the js_modules scan
  native_module_jval,  \* CompileModule: value of iotjs_module_get(name)
  jexports,            \* CompileModule: exports read at line 145
  jres,                \* CompileModule: jres
  callArgs,            \* CompileModule: args[] handed to jerry_call_function
  unitRet,             \* CompileModule: what the invoked unit returned
  units,               \* CompileModule: units produced in this call
  invocations,         \* CompileModule: units invoked in this call
  nativeRegistered,    \* native modules whose factory has run
  compileArgs,         \* Compile / wait_for_source_callback: (file, source)
  snap,                \* CompileSnapshot: what stat and read gave
  plugins              \* DLOpen: one record per call, in call order

vars == <<debugger, snapshotBuild, handler, phase, trace, result, jmodule, i,
          native_module_jval, jexports, jres, callArgs, unitRet, units,
          invocations, nativeRegistered, compileArgs, snap, plugins>>

----------------------------------------------------------------------------
(* Bounds *)

MaxLoads == 3          \* DLOpen calls in one behaviour
MaxSnapshotSize == 2   \* largest size iotjs__file_read reports

----------------------------------------------------------------------------
(* jerry_value_t: a tag and a payload *)

Val(t, v) == [t |-> t, v |-> v]
Undefined == Val("undefined", "")
Obj(v) == Val("object", v)
Fun(v) == Val("function", v)
Num(v) == Val("number", v)
Err(v) == Val("error", v)
NoValue == Val("none", "")

jerry_value_has_error_flag(x) == x.t = "error"
jerry_value_is_undefined(x) == x.t = "undefined"

----------------------------------------------------------------------------
(* The two link-time tables.  "fs" has both a script and a native part,    *)
(* "util" is script only, "broken" is a script that does not compile,      *)
(* "gpio" is native only, "nope" is in neither table.                      *)

js_modules ==
  << [name |-> "fs", code |-> "good"],
     [name |-> "util", code |-> "good"],
     [name |-> "broken", code |-> "bad"] >>

NotFoundIdx == Len(js_modules) + 1     \* the terminating {NULL} entry

iotjs_modules == {"fs", "gpio"}

ModuleIds == {"fs", "util", "broken", "gpio", "nope"}

BuiltinNames == {js_modules[k].name : k \in 1..Len(js_modules)}

RECURSIVE ScanFrom(_, _)
ScanFrom(k, name) ==
  IF k > Len(js_modules) THEN k
  ELSE IF js_modules[k].name = name THEN k
  ELSE ScanFrom(k + 1, name)

\* lines 131-138: linear scan of js_modules by strcmp
ScanJsModules(name) == ScanFrom(1, name)

\* iotjs_module_get: the native module's exports; its factory runs on the
\* first request and may fail; an unregistered name gives undefined.
iotjs_module_get(name) ==
  IF name \in iotjs_modules THEN {Obj(name), Err("native init failed")}
  ELSE {Undefined}

----------------------------------------------------------------------------
(* Compiler *)

Sources == {"good", "bad"}
ResourceNames == {"a.js", "b.js"}

\* jerry_parse_function: a function over the six formals, or a parse error
WrapEvalFormals ==
  <<"exports", "require", "module", "native", "__filename", "__dirname">>

WrapEval(name, source) ==
  IF source = "good" THEN Fun(name) ELSE Err("SyntaxError")

\* jerry_exec_snapshot_at on the built-in snapshot blob
jerry_exec_snapshot_at(k) ==
  IF js_modules[k].code = "good" THEN Fun(js_modules[k].name)
  ELSE Err("SnapshotInvalid")

----------------------------------------------------------------------------
Terminal == {"Done", "NotFound", "Failed"}
CanStart == phase \in Terminal \cup {"idle"}

InitialExports == Obj("exports0")
jrequire == Fun("require")
ModuleRef(m) == Obj(m.id)

Init ==
  /\ debugger \in BOOLEAN
  /\ snapshotBuild \in BOOLEAN
  /\ handler = "none"
  /\ phase = "idle"
  /\ trace = <<>>
  /\ result = NoValue
  /\ jmodule = [id |-> "", exports |-> NoValue]
  /\ i = 0
  /\ native_module_jval = NoValue
  /\ jexports = NoValue
  /\ jres = NoValue
  /\ callArgs = <<>>
  /\ unitRet = NoValue
  /\ units = 0
  /\ invocations = 0
  /\ nativeRegistered = {}
  /\ compileArgs = [file |-> "", source |-> ""]
  /\ snap = [kind |-> "", isreg |-> FALSE, bufNull |-> TRUE, size |-> 0]
  /\ plugins = <<>>

----------------------------------------------------------------------------
(* CompileModule *)

\* line 140: the native table is queried whether or not the scan found a name
QueriesNativeSkipFound(found) == ~found
QueriesNative(found) == TRUE

\* lines 148, 166, 168: which of the three branches runs
DispatchNoNative(found, native) ==
  IF found THEN "builtin" ELSE "unknown"
DispatchAssignAlways(found, native) ==
  IF found THEN "builtin" ELSE "native"
Dispatch(found, native) ==
  IF found THEN "builtin"
  ELSE IF ~jerry_value_is_undefined(native) THEN "native"
  ELSE "unknown"

\* lines 149-155: the unit of js_modules[k]
ProduceCalls(k, name) ==
  IF snapshotBuild THEN <<"exec_snapshot_at">> ELSE <<"parse">>

Produce(k, name) ==
  IF snapshotBuild THEN jerry_exec_snapshot_at(k)
  ELSE WrapEval(name, js_modules[k].code)

\* lines 158-159: the argument array of the call
ArgsSix(e, r, m, n) == <<e, r, ModuleRef(m), n, Obj(m.id), Obj("dirname")>>
Args(e, r, m, n) == <<e, r, ModuleRef(m), n>>

\* line 174: the handler returns jres
ReturnExports(res, exports) ==
  IF jerry_value_has_error_flag(res) THEN res ELSE exports
ReturnWrapped(res, exports) ==
  IF jerry_value_has_error_flag(res) THEN Err("ModuleLoadFailed") ELSE res
ReturnValue(res, exports) == res

\* lines 120-129: entry, reads module.id
CompileModuleBegin ==
  /\ CanStart
  /\ \E id \in ModuleIds :
       jmodule' = [id |-> id, exports |-> InitialExports]
  /\ handler' = "CompileModule"
  /\ phase' = "Lookup"
  /\ trace' = <<>>
  /\ result' = NoValue
  /\ i' = 0
  /\ native_module_jval' = NoValue
  /\ jexports' = NoValue
  /\ jres' = NoValue
  /\ callArgs' = <<>>
  /\ unitRet' = NoValue
  /\ units' = 0
  /\ invocations' = 0
  /\ compileArgs' = [file |-> "", source |-> ""]
  /\ snap' = [kind |-> "", isreg |-> FALSE, bufNull |-> TRUE, size |-> 0]
  /\ UNCHANGED <<debugger, snapshotBuild, nativeRegistered, plugins>>

\* lines 131-148 and 166-174: scan, native lookup, dispatch
CompileModuleLookup ==
  /\ phase = "Lookup"
  /\ LET k == ScanJsModules(jmodule.id)
         found == k # NotFoundIdx
         asks == QueriesNative(found)
     IN
     /\ i' = k
     /\ \E nat \in (IF asks THEN iotjs_module_get(jmodule.id)
                    ELSE {Undefined}) :
          /\ native_module_jval' = nat
          /\ trace' = trace \o <<"scan">>
                        \o (IF asks THEN <<"iotjs_module_get">> ELSE <<>>)
          /\ nativeRegistered' =
               IF asks /\ nat.t = "object"
               THEN nativeRegistered \cup {jmodule.id}
               ELSE nativeRegistered
          /\ IF jerry_value_has_error_flag(nat)
             THEN /\ phase' = "Failed"
                  /\ result' = nat
                  /\ UNCHANGED <<jmodule, jexports, jres>>
             ELSE /\ jexports' = jmodule.exports
                  /\ CASE Dispatch(found, nat) = "builtin" ->
                            /\ phase' = "Produce"
                            /\ jres' = Undefined
                            /\ UNCHANGED <<jmodule, result>>
                       [] Dispatch(found, nat) = "native" ->
                            /\ phase' = "Done"
                            /\ jres' = Undefined
                            /\ jmodule' = [jmodule EXCEPT !.exports = nat]
                            /\ result' = ReturnValue(Undefined, nat)
                       [] OTHER ->
                            /\ phase' = "NotFound"
                            /\ jres' = Err("Unknown native module")
                            /\ result' = ReturnValue(jres', jmodule.exports)
                            /\ UNCHANGED jmodule
  /\ UNCHANGED <<debugger, snapshotBuild, handler, callArgs, unitRet, units,
                 invocations, compileArgs, snap, plugins>>

\* lines 149-157: produce the unit from the snapshot blob or from source
CompileModuleProduce ==
  /\ phase = "Produce"
  /\ jres' = Produce(i, jmodule.id)
  /\ trace' = trace \o ProduceCalls(i, jmodule.id)
  /\ units' = units + Len(ProduceCalls(i, jmodule.id))
  /\ IF jerry_value_has_error_flag(jres')
     THEN /\ phase' = "Failed"
          /\ result' = ReturnValue(jres', jmodule.exports)
     ELSE /\ phase' = "Invoke"
          /\ UNCHANGED result
  /\ UNCHANGED <<debugger, snapshotBuild, handler, jmodule, i,
                 native_module_jval, jexports, callArgs, unitRet, invocations,
                 nativeRegistered, compileArgs, snap, plugins>>

\* what a module body can do: return or throw, and replace module.exports
UnitReturns(exports) ==
  {Undefined, Obj("returned"), exports, Err("ScriptException")}

\* lines 158-165 and 172-174: call the unit, return what it returned
CompileModuleInvoke ==
  /\ phase = "Invoke"
  /\ callArgs' = Args(jexports, jrequire, jmodule, native_module_jval)
  /\ invocations' = invocations + 1
  /\ trace' = trace \o <<"call">>
  /\ \E newExports \in {jmodule.exports, Obj("reassigned")} :
       \E ret \in UnitReturns(newExports) :
         /\ jmodule' = [jmodule EXCEPT !.exports = newExports]
         /\ unitRet' = ret
         /\ jres' = ret
         /\ result' = ReturnValue(ret, newExports)
         /\ phase' = IF jerry_value_has_error_flag(ret) THEN "Failed"
                     ELSE "Done"
  /\ UNCHANGED <<debugger, snapshotBuild, handler, i, native_module_jval,
                 jexports, units, nativeRegistered, compileArgs, snap,
                 plugins>>

----------------------------------------------------------------------------
(* Locals of the handlers that are not running *)

ResetCompileModule ==
  /\ jmodule' = [id |-> "", exports |-> NoValue]
  /\ i' = 0
  /\ native_module_jval' = NoValue
  /\ jexports' = NoValue
  /\ jres' = NoValue
  /\ callArgs' = <<>>
  /\ unitRet' = NoValue
  /\ units' = 0
  /\ invocations' = 0

NoCompileArgs == [file |-> "", source |-> ""]
NoSnap == [kind |-> "", isreg |-> FALSE, bufNull |-> TRUE, size |-> 0]

----------------------------------------------------------------------------
(* Compile *)

\* lines 55-61: stop the debugger if one is configured, then parse
CompileCallsParseFirst(dbg) ==
  <<"parse">> \o (IF dbg THEN <<"jerry_debugger_stop">> ELSE <<>>)
CompileCalls(dbg) ==
  (IF dbg THEN <<"jerry_debugger_stop">> ELSE <<>>) \o <<"parse">>

Compile ==
  /\ CanStart
  /\ \E file \in ResourceNames, source \in Sources :
       /\ compileArgs' = [file |-> file, source |-> source]
       /\ result' = WrapEval(file, source)
  /\ trace' = CompileCalls(debugger)
  /\ handler' = "Compile"
  /\ phase' = "idle"
  /\ snap' = NoSnap
  /\ ResetCompileModule
  /\ UNCHANGED <<debugger, snapshotBuild, nativeRegistered, plugins>>

----------------------------------------------------------------------------
(* DebuggerSourceCompile *)

\* lines 105-108: the callback stops the debugger, then parses
wait_for_source_callback_calls == <<"jerry_debugger_stop", "parse">>

\* line 114: res is not initialised by this file; when the callback does not
\* run it holds whatever jerry_debugger_wait_for_client_source left there
Indeterminate == Val("indeterminate", "")

\* the client pushed (resourceName, sourceBytes): the callback's value is
\* returned
DebuggerSourceCompile ==
  /\ CanStart
  /\ debugger
  /\ \E file \in ResourceNames, source \in Sources :
       /\ compileArgs' = [file |-> file, source |-> source]
       /\ result' = WrapEval(file, source)
  /\ trace' = <<"jerry_debugger_wait_for_client_source">>
                \o wait_for_source_callback_calls
  /\ handler' = "DebuggerSourceCompile"
  /\ phase' = "idle"
  /\ snap' = NoSnap
  /\ ResetCompileModule
  /\ UNCHANGED <<debugger, snapshotBuild, nativeRegistered, plugins>>

\* no client source arrived (no session, or the session ended)
DebuggerSourceCompileNoSource ==
  /\ CanStart
  /\ compileArgs' = NoCompileArgs
  /\ result' \in {Undefined, Indeterminate}
  /\ trace' = <<"jerry_debugger_wait_for_client_source">>
  /\ handler' = "DebuggerSourceCompile"
  /\ phase' = "idle"
  /\ snap' = NoSnap
  /\ ResetCompileModule
  /\ UNCHANGED <<debugger, snapshotBuild, nativeRegistered, plugins>>

----------------------------------------------------------------------------
(* CompileSnapshot *)

FileKinds == {"regular", "directory", "missing"}

\* line 80: S_ISREG(fs_req.statbuf.st_mode).  The result of uv_fs_stat is not
\* checked, so for a path that cannot be stat'ed st_mode is whatever the
\* uninitialised fs_req holds.
S_ISREG(kind) ==
  CASE kind = "regular" -> {TRUE}
    [] kind = "directory" -> {FALSE}
    [] OTHER -> BOOLEAN

\* iotjs__file_read(path, &size): NULL when the file cannot be read, else the
\* content and its length
iotjs__file_read(kind) ==
  IF kind = "regular"
  THEN {[bufNull |-> TRUE, size |-> 0]}
         \cup {[bufNull |-> FALSE, size |-> n] : n \in 0..MaxSnapshotSize}
  ELSE {[bufNull |-> TRUE, size |-> 0]}

\* jerry_exec_snapshot: the value of running the bytecode, or the engine's
\* rejection of it
jerry_exec_snapshot == {Undefined, Obj("snapshot value"), Err("SnapshotInvalid")}

\* lines 76-91
CompileSnapshotCalls(isreg, bufNull, size) ==
  IF ~isreg THEN <<"uv_fs_stat">>
  ELSE IF bufNull \/ size = 0 THEN <<"uv_fs_stat", "iotjs__file_read">>
  ELSE <<"uv_fs_stat", "iotjs__file_read", "jerry_exec_snapshot">>

CompileSnapshot ==
  /\ CanStart
  /\ \E kind \in FileKinds :
       \E isreg \in S_ISREG(kind) :
         \E rd \in (IF isreg THEN iotjs__file_read(kind)
                    ELSE {[bufNull |-> TRUE, size |-> 0]}) :
           LET calls == CompileSnapshotCalls(isreg, rd.bufNull, rd.size) IN
           /\ snap' = [kind |-> kind, isreg |-> isreg,
                       bufNull |-> rd.bufNull, size |-> rd.size]
           /\ trace' = calls
           /\ CASE calls[Len(calls)] = "uv_fs_stat" ->
                     result' = Err("ReadSource error, not a regular file")
                [] calls[Len(calls)] = "iotjs__file_read" ->
                     result' = Err("Could not load the snapshot source.")
                [] OTHER -> result' \in jerry_exec_snapshot
  /\ handler' = "CompileSnapshot"
  /\ phase' = "idle"
  /\ compileArgs' = NoCompileArgs
  /\ ResetCompileModule
  /\ UNCHANGED <<debugger, snapshotBuild, nativeRegistered, plugins>>

----------------------------------------------------------------------------
(* DLOpen *)

PluginPaths == {"valid.so", "nosym.so", "missing.so"}

\* dlopen(location, RTLD_LAZY) != NULL
dlopen(path) == path # "missing.so"
\* dlsym(handle, "iotjs_module_register") leaves no dlerror()
dlsym(path) == path = "valid.so"

\* lines 370-387: the calls made and the value returned
DLOpenNoClose(path) ==
  IF ~dlopen(path)
  THEN [calls |-> <<"dlopen", "stderr dlopen">>, ret |-> Num("-1")]
  ELSE IF ~dlsym(path)
  THEN [calls |-> <<"dlopen", "dlsym", "stderr dlsym">>, ret |-> Num("-1")]
  ELSE [calls |-> <<"dlopen", "dlsym", "jerry_create_object", "initfn">>,
        ret |-> Obj("plugin exports")]
DLOpenInitBeforeCheck(path) ==
  IF ~dlopen(path)
  THEN [calls |-> <<"dlopen", "stderr dlopen">>, ret |-> Num("-1")]
  ELSE IF ~dlsym(path)
  THEN [calls |-> <<"dlopen", "dlsym", "jerry_create_object", "initfn",
                    "stderr dlsym", "dlclose">>,
        ret |-> Num("-1")]
  ELSE [calls |-> <<"dlopen", "dlsym", "jerry_create_object", "initfn">>,
        ret |-> Obj("plugin exports")]
DLOpenOutcome(path) ==
  IF ~dlopen(path)
  THEN [calls |-> <<"dlopen", "stderr dlopen">>, ret |-> Num("-1")]
  ELSE IF ~dlsym(path)
  THEN [calls |-> <<"dlopen", "dlsym", "stderr dlsym", "dlclose">>,
        ret |-> Num("-1")]
  ELSE [calls |-> <<"dlopen", "dlsym", "jerry_create_object", "initfn">>,
        ret |-> Obj("plugin exports")]

Has(seq, e) == \E k \in 1..Len(seq) : seq[k] = e

\* the handle of one call: whether dlopen gave one, whether it is still open
\* when the call returns, and whether the call returned the exports object
DLOpen ==
  /\ CanStart
  /\ Len(plugins) < MaxLoads
  /\ \E path \in PluginPaths :
       LET out == DLOpenOutcome(path) IN
       /\ trace' = out.calls
       /\ result' = out.ret
       /\ plugins' = Append(plugins,
            [path |-> path,
             opened |-> dlopen(path),
             open |-> dlopen(path) /\ ~Has(out.calls, "dlclose"),
             ok |-> out.ret.t = "object"])
  /\ handler' = "DLOpen"
  /\ phase' = "idle"
  /\ compileArgs' = NoCompileArgs
  /\ snap' = NoSnap
  /\ ResetCompileModule
  /\ UNCHANGED <<debugger, snapshotBuild, nativeRegistered>>

----------------------------------------------------------------------------
Next ==
  \/ CompileModuleBegin
  \/ CompileModuleLookup
  \/ CompileModuleProduce
  \/ CompileModuleInvoke
  \/ Compile
  \/ DebuggerSourceCompile
  \/ DebuggerSourceCompileNoSource
  \/ CompileSnapshot
  \/ DLOpen

Spec == Init /\ [][Next]_vars

----------------------------------------------------------------------------
(* Properties *)

Count(seq, e) == Cardinality({k \in 1..Len(seq) : seq[k] = e})
Pos(seq, e) == CHOOSE k \in 1..Len(seq) : seq[k] = e

InCompileModule == handler = "CompileModule"
IsBuiltin(id) == id \in BuiltinNames
IsNative(id) == id \in iotjs_modules

\* C1 (as stated): once the lookup of a CompileModule call has run, an id
\* whose native exports object is non-undefined - built-in script or not -
\* has that object in module.exports, the call is Done, and no unit was
\* produced or invoked.
C1_NativeFirst ==
  (InCompileModule /\ phase # "Lookup" /\ native_module_jval.t = "object")
    => /\ phase = "Done"
       /\ jmodule.exports = native_module_jval
       /\ units = 0
       /\ invocations = 0

\* C1 (amended): the built-in script table takes precedence.  An id with a
\* native exports object that is not a built-in script gets that object in
\* module.exports with no unit produced or invoked; an id in both tables is
\* resolved as a built-in script: one unit is produced and, when invoked,
\* receives the native exports as its fourth argument.
C1_BuiltinFirst ==
  (InCompileModule /\ phase # "Lookup" /\ native_module_jval.t = "object")
    => IF IsBuiltin(jmodule.id)
       THEN /\ phase \in {"Produce", "Invoke", "Done", "Failed"}
            /\ phase \in Terminal => units > 0
            /\ invocations > 0 => callArgs[Len(callArgs)] = native_module_jval
       ELSE /\ phase = "Done"
            /\ jmodule.exports = native_module_jval
            /\ result = Undefined
            /\ units = 0
            /\ invocations = 0
            /\ ~Has(trace, "parse")
            /\ ~Has(trace, "exec_snapshot_at")
            /\ ~Has(trace, "call")

C1_Witness ==
  /\ InCompileModule
  /\ jmodule.id = "gpio"
  /\ phase = "Done"
  /\ jmodule.exports = Obj("gpio")

\* C2 (as stated): every invocation of a unit passes as many arguments as
\* the wrapper has formals, all of them populated.
C2_SixArguments ==
  (InCompileModule /\ invocations > 0)
    => /\ Len(callArgs) = Len(WrapEvalFormals)
       /\ \A k \in 1..Len(callArgs) : callArgs[k].t \notin {"undefined", "none"}

\* C2 (amended): every invocation of a unit, in either build configuration,
\* passes exactly the first four of the six formals, in order: the exports
\* read from the module record, require, the module record, and the native
\* lookup's value (undefined when the id has no native part); __filename and
\* __dirname receive no argument.
C2_FourArguments ==
  (InCompileModule /\ invocations > 0)
    => /\ Len(callArgs) + 2 = Len(WrapEvalFormals)
       /\ callArgs[1] = InitialExports
       /\ callArgs[2] = jrequire
       /\ callArgs[3] = ModuleRef(jmodule)
       /\ callArgs[4] = native_module_jval
       /\ callArgs[4] = (IF IsNative(jmodule.id) THEN Obj(jmodule.id)
                         ELSE Undefined)

C2_Witness ==
  /\ InCompileModule
  /\ invocations = 1
  /\ jmodule.id = "util"
  /\ snapshotBuild
  /\ callArgs[4] = Undefined

\* C3: an id in neither table ends in NotFound with the "Unknown native
\* module" error, module.exports is what it was before the call, and no unit
\* is produced or invoked.
C3_UnknownModule ==
  (InCompileModule /\ phase # "Lookup"
     /\ ~IsBuiltin(jmodule.id) /\ ~IsNative(jmodule.id))
    => /\ phase = "NotFound"
       /\ result = Err("Unknown native module")
       /\ jmodule.exports = InitialExports
       /\ units = 0
       /\ invocations = 0
       /\ ~Has(trace, "call")

C3_Witness ==
  /\ InCompileModule
  /\ jmodule.id = "nope"
  /\ phase = "NotFound"

\* a built-in call whose unit was produced and ran without error
BuiltinDone == InCompileModule /\ phase = "Done" /\ units > 0

\* C4 (as stated): such a call invoked the unit once and returns the object
\* left in module.exports.
C4_ReturnsExports ==
  BuiltinDone => (invocations = 1 /\ result = jmodule.exports)

\* C4 (amended): such a call invoked the unit once and returns the unit's own
\* return value; the exports stay in module.exports for the caller to read.
C4_ReturnsUnitValue ==
  BuiltinDone
    => /\ invocations = 1
       /\ Count(trace, "call") = 1
       /\ result = unitRet
       /\ jmodule.exports \in {InitialExports, Obj("reassigned")}

C4_Witness ==
  /\ BuiltinDone
  /\ result = Undefined
  /\ jmodule.exports = Obj("reassigned")

\* C5: a handle is open exactly when the call that opened it returned the
\* exports object; a handle is never closed by a later call.
C5_HandleOpenIffLoaded ==
  /\ [](\A k \in 1..Len(plugins) :
          /\ plugins[k].open <=> plugins[k].ok
          /\ ~plugins[k].opened => ~plugins[k].open
          /\ plugins[k].ok <=> (dlopen(plugins[k].path) /\ dlsym(plugins[k].path)))
  /\ [][\A k \in 1..Len(plugins) : plugins'[k] = plugins[k]]_vars

C5_Witness ==
  /\ Len(plugins) = MaxLoads
  /\ plugins[1].ok /\ plugins[1].open
  /\ \E k \in 2..Len(plugins) : plugins[k].opened /\ ~plugins[k].open
  /\ \E k \in 2..Len(plugins) : ~plugins[k].opened

LastPlugin == plugins[Len(plugins)]

\* C6 (as stated): a failed open returns a PluginOpenFailed error, a missing
\* entry symbol returns a PluginSymbolMissing error, and the entry function
\* runs once exactly when both steps succeeded.
C6_DistinctErrors ==
  handler = "DLOpen"
    => /\ ~LastPlugin.opened => result = Err("PluginOpenFailed")
       /\ (LastPlugin.opened /\ ~LastPlugin.ok)
            => result = Err("PluginSymbolMissing")
       /\ Count(trace, "initfn") = (IF LastPlugin.ok THEN 1 ELSE 0)

\* C6 (amended): both failures return the same plain number -1, never an
\* error value; they differ only in the diagnostic written to stderr
\* ("dlopen: error" or "dlsym: error").  The entry function runs once, on an
\* object created just before, exactly when open and symbol resolution both
\* succeeded, and that object is the result.
C6_MinusOne ==
  handler = "DLOpen"
    => LET path == LastPlugin.path
           loaded == dlopen(path) /\ dlsym(path)
       IN
       /\ ~jerry_value_has_error_flag(result)
       /\ ~dlopen(path)
            => /\ result = Num("-1")
               /\ Has(trace, "stderr dlopen") /\ ~Has(trace, "stderr dlsym")
       /\ (dlopen(path) /\ ~dlsym(path))
            => /\ result = Num("-1")
               /\ Has(trace, "stderr dlsym") /\ ~Has(trace, "stderr dlopen")
       /\ Count(trace, "initfn") = (IF loaded THEN 1 ELSE 0)
       /\ loaded
            => /\ result = Obj("plugin exports")
               /\ Pos(trace, "jerry_create_object") + 1 = Pos(trace, "initfn")

C6_Witness ==
  /\ handler = "DLOpen"
  /\ LastPlugin.path = "nosym.so"
  /\ result = Num("-1")
  /\ Len(plugins) > 1
  /\ plugins[1].path = "missing.so"

\* C7: a snapshot is executed only for a regular file with non-empty
\* content; for a path that is not a regular file the call fails before a
\* read is attempted; a file that is empty or cannot be read gives the
\* "Could not load the snapshot source." error and is never executed.
C7_SnapshotGuards ==
  handler = "CompileSnapshot"
    => /\ Has(trace, "jerry_exec_snapshot")
            => (snap.kind = "regular" /\ ~snap.bufNull /\ snap.size > 0)
       /\ snap.kind # "regular"
            => /\ ~Has(trace, "iotjs__file_read")
               /\ jerry_value_has_error_flag(result)
       /\ (snap.kind = "regular" /\ (snap.bufNull \/ snap.size = 0))
            => /\ result = Err("Could not load the snapshot source.")
               /\ ~Has(trace, "jerry_exec_snapshot")

\* C8: a CompileModule call only moves forward through Lookup, Produce,
\* Invoke to one terminal state, produces at most one unit, and returns the
\* error of a failed production (without invoking) or of a failed invocation
\* unchanged.
C8_Step ==
  /\ phase' = "Lookup" => phase \in Terminal \cup {"idle"}
  /\ phase = "Lookup" => phase' \in {"Produce", "Done", "NotFound", "Failed"}
  /\ phase = "Produce" => phase' \in {"Invoke", "Failed"}
  /\ phase = "Invoke" => phase' \in {"Done", "Failed"}
  /\ (phase \in Terminal /\ handler' = handler /\ phase' # "Lookup")
       => phase' = phase
  /\ units' <= 1
  /\ invocations' <= units'
  /\ (phase = "Produce" /\ phase' = "Failed")
       => /\ result' = (IF snapshotBuild THEN jerry_exec_snapshot_at(i)
                        ELSE WrapEval(jmodule.id, js_modules[i].code))
          /\ jerry_value_has_error_flag(result')
          /\ invocations' = 0
  /\ (phase = "Produce" /\ phase' = "Invoke")
       => ~jerry_value_has_error_flag(jres')
  /\ phase = "Invoke"
       => /\ invocations' = 1
          /\ (phase' = "Failed") <=> jerry_value_has_error_flag(unitRet')
          /\ phase' = "Failed" => result' = unitRet'

C8_ForwardOnly == [][C8_Step]_vars

C8_Witness ==
  /\ InCompileModule
  /\ phase = "Failed"
  /\ invocations = 1
  /\ result = Err("ScriptException")

C10_NativeSkipped ==
  (InCompileModule /\ phase # "Lookup" /\ IsBuiltin(jmodule.id))
    => /\ ~Has(trace, "iotjs_module_get")
       /\ result # Err("native init failed")

\* C10 (amended): the built-in table is scanned first and the native table is
\* then queried once on every resolution, found or not, before any unit is
\* produced; an error from that query ends the call with that error and no
\* unit, also for a built-in name.
C10_NativeAlwaysQueried ==
  (InCompileModule /\ phase # "Lookup")
    => /\ Len(trace) >= 2
       /\ trace[1] = "scan"
       /\ trace[2] = "iotjs_module_get"
       /\ Count(trace, "iotjs_module_get") = 1
       /\ jerry_value_has_error_flag(native_module_jval)
            => /\ phase = "Failed"
               /\ result = native_module_jval
               /\ units = 0

C10_Witness ==
  /\ InCompileModule
  /\ jmodule.id = "fs"
  /\ phase = "Failed"
  /\ result = Err("native init failed")
  /\ units = 0

====
